---- MODULE Spec2Model ----
(***************************************************************************)
(* The sdl2 platform adapter for egui (src/platform.rs): the Platform      *)
(* struct, handle_event's translation of sdl2 events into egui events,     *)
(* and the frame begin that hands the accumulated RawInput to egui.        *)
(*                                                                         *)
(* f32 values are represented by the integers they equal (every f32 the    *)
(* adapter computes is an integer-valued cast of an i32, possibly times    *)
(* 8.0).  A bitflags value (sdl2::keyboard::Mod) is the set of its flags,  *)
(* so `keymod & F == F` is `F \in keymod`.                                 *)
(***************************************************************************)
EXTENDS Integers, Sequences, FiniteSets, TLC

VARIABLES
    pointer_pos,            \* Platform.pointer_pos
    modifiers,              \* Platform.modifiers
    raw_input,              \* Platform.raw_input: events, screen_rect, time, modifiers
    compositing,            \* Platform.compositing
    has_sent_ime_enabled,   \* Platform.has_sent_ime_enabled
    cursor,                 \* Platform.cursor: the native cursor handle, by the kind it was made from
    system_cursor,          \* Platform.system_cursor
    applied,                \* the most recent autoupdate_platform: its output, and which platform calls fail
    os,                     \* the platform: the cursor last set, the clipboard content last written
    ran,                    \* the commands the most recent autoupdate_platform ran, with their outcomes
    result,                 \* what the most recent autoupdate_platform returned
    egui_ctx,               \* Platform.egui_ctx: pixels_per_point, passes begun and not ended
    begun,                  \* the RawInput the most recent call began a pass with, if it began one
    last_call,              \* the most recent call made on the adapter, with its arguments
    prev_call,              \* the call before it
    ncalls,                 \* calls made since construction, counted up to CallsTracked
    pending,                \* handle_event calls since the queue was last drained
    before,                 \* the adapter's fields as the most recent call found them
    emitted,                \* the events the most recent call appended to raw_input.events
    obs                     \* what the toolkit has seen of the emitted stream so far

outVars == <<cursor, system_cursor, applied, os, ran, result>>

vars == <<pointer_pos, modifiers, raw_input, compositing, has_sent_ime_enabled,
          cursor, system_cursor, applied, os, ran, result, egui_ctx, begun, last_call, prev_call, ncalls, pending, before,
          emitted, obs>>

(***************************************************************************)
(* Bounds of the model                                                     *)
(***************************************************************************)
MaxPending == 2
CallsTracked == 3

(***************************************************************************)
(* Values                                                                  *)
(***************************************************************************)
None == [some |-> FALSE]
Some(v) == [some |-> TRUE, val |-> v]

Pos2(x, y) == <<x, y>>
Pos2ZERO == Pos2(0, 0)

RectFromMinSize(min, size) ==
    [min |-> min, max |-> Pos2(min[1] + size[1], min[2] + size[2])]

ModifiersDefault ==
    [alt |-> FALSE, ctrl |-> FALSE, shift |-> FALSE, mac_cmd |-> FALSE, command |-> FALSE]

RawInputDefault ==
    [events |-> <<>>, screen_rect |-> None, time |-> None, modifiers |-> ModifiersDefault]

\* `n as f32` for an i32 n: exact up to 2^24, beyond it rounded to the nearest
\* representable value (24-bit significand), ties to even.
RECURSIVE Ulp(_)
Ulp(a) == IF a < 2^24 THEN 1 ELSE 2 * Ulp(a \div 2)

F32Abs(a) ==
    LET u == Ulp(a)
        q == a \div u
        r == a % u
    IN  IF 2 * r < u THEN q * u
        ELSE IF 2 * r > u THEN (q + 1) * u
        ELSE IF q % 2 = 0 THEN q * u ELSE (q + 1) * u

ToF32(n) == IF n < 0 THEN 0 - F32Abs(0 - n) ELSE F32Abs(n)

(***************************************************************************)
(* egui events                                                             *)
(***************************************************************************)
PointerButton(pos, button, pressed, mods) ==
    [type |-> "PointerButton", pos |-> pos, button |-> button,
     pressed |-> pressed, modifiers |-> mods]
PointerMoved(pos) == [type |-> "PointerMoved", pos |-> pos]
MouseWheel(delta, mods) ==
    [type |-> "MouseWheel", delta |-> delta, unit |-> "Point", modifiers |-> mods]
Key(key, pressed, mods) ==
    [type |-> "Key", key |-> key, physical_key |-> Some(key), pressed |-> pressed,
     repeat |-> FALSE, modifiers |-> mods]
Copy == [type |-> "Copy"]
Cut == [type |-> "Cut"]
Paste(txt) == [type |-> "Paste", text |-> txt]
Text(txt) == [type |-> "Text", text |-> txt]
ImeCommit(txt) == [type |-> "Ime", ime |-> "Commit", text |-> txt]
ImePreedit(txt) == [type |-> "Ime", ime |-> "Preedit", text |-> txt]
ImeEnabled == [type |-> "Ime", ime |-> "Enabled", text |-> ""]
ImeDisabled == [type |-> "Ime", ime |-> "Disabled", text |-> ""]

(***************************************************************************)
(* The toolkit's view of the emitted stream, across frame boundaries       *)
(***************************************************************************)
ObsInit ==
    [moved |-> Pos2ZERO, button_at_moved |-> TRUE, ime |-> "None", enabled_twice |-> FALSE,
     preedit_enabled |-> TRUE, after_commit |-> FALSE, commit_followed |-> TRUE]

\* ime: the IME notification emitted last; preedit_enabled: every preedit so
\* far came while that was Enabled; after_commit: the event emitted last is a
\* commit; commit_followed: every event so far that came right after a commit
\* is a Disabled notification.
ObserveIme(o, e) ==
    [o EXCEPT !.preedit_enabled =
                  o.preedit_enabled
                      /\ ((e.type = "Ime" /\ e.ime = "Preedit") => o.ime = "Enabled"),
              !.commit_followed =
                  o.commit_followed
                      /\ (o.after_commit => (e.type = "Ime" /\ e.ime = "Disabled")),
              !.after_commit = (e.type = "Ime" /\ e.ime = "Commit")]

ObserveOne(o, e) ==
    CASE e.type = "PointerMoved" -> [o EXCEPT !.moved = e.pos]
      [] e.type = "PointerButton" ->
            [o EXCEPT !.button_at_moved = o.button_at_moved /\ e.pos = o.moved]
      [] e.type = "Ime" /\ e.ime = "Enabled" ->
            [o EXCEPT !.ime = "Enabled",
                      !.enabled_twice = o.enabled_twice \/ o.ime = "Enabled"]
      [] e.type = "Ime" /\ e.ime = "Disabled" -> [o EXCEPT !.ime = "Disabled"]
      [] OTHER -> o

RECURSIVE Observe(_, _)
Observe(o, evs) ==
    IF evs = <<>> THEN o
    ELSE Observe(ObserveOne(ObserveIme(o, Head(evs)), Head(evs)), Tail(evs))

(***************************************************************************)
(* Construction: Platform::new / Platform::targeting                       *)
(***************************************************************************)
InitSizes == {<<800, 600>>}

Init ==
    /\ \E size \in InitSizes :
          raw_input = [RawInputDefault EXCEPT
              !.screen_rect = Some(RectFromMinSize(Pos2ZERO,
                                      Pos2(ToF32(size[1]), ToF32(size[2]))))]
    /\ pointer_pos = Pos2ZERO
    /\ modifiers = ModifiersDefault
    /\ compositing = FALSE
    /\ has_sent_ime_enabled = FALSE
    /\ cursor \in {None, Some("Arrow")}
    /\ system_cursor = "Arrow"
    /\ os = [cursor |-> "Unset", clipboard |-> None]
    /\ applied = None
    /\ ran = <<>>
    /\ result = "None"
    /\ egui_ctx = [pixels_per_point |-> 1, in_pass |-> FALSE]
    /\ begun = None
    /\ last_call = [kind |-> "new"]
    /\ prev_call = [kind |-> "new"]
    /\ ncalls = 0
    /\ pending = 0
    /\ before = [compositing |-> FALSE, has_sent_ime_enabled |-> FALSE,
                 pointer_pos |-> Pos2ZERO, modifiers |-> ModifiersDefault,
                 cursor |-> cursor, system_cursor |-> "Arrow", os |-> os]
    /\ emitted = <<>>
    /\ obs = ObsInit

(***************************************************************************)
(* Bookkeeping shared by every call                                        *)
(***************************************************************************)
Snapshot ==
    [compositing |-> compositing, has_sent_ime_enabled |-> has_sent_ime_enabled,
     pointer_pos |-> pointer_pos, modifiers |-> modifiers,
     cursor |-> cursor, system_cursor |-> system_cursor, os |-> os]

Suffix(s, n) == SubSeq(s, n + 1, Len(s))

\* A call `call` that appended `new` to raw_input.events.
Called(call, new) ==
    /\ prev_call' = last_call
    /\ last_call' = call
    /\ ncalls' = IF ncalls < CallsTracked THEN ncalls + 1 ELSE ncalls
    /\ before' = Snapshot
    /\ emitted' = new
    /\ obs' = Observe(obs, new)

\* handle_event(event) leaving self.raw_input as `ri`.
Handled(event, ri) ==
    /\ pending < MaxPending
    /\ pending' = pending + 1
    /\ raw_input' = ri
    /\ begun' = None
    /\ Called(event, Suffix(ri.events, Len(raw_input.events)))
    /\ UNCHANGED <<egui_ctx, outVars>>

\* self.raw_input.events.push(e) for each e of evs, in order.
PushFront(ri, evs) == [ri EXCEPT !.events = evs \o ri.events]
Push(ri, evs) == [ri EXCEPT !.events = ri.events \o evs]

(***************************************************************************)
(* handle_event: mouse                                                     *)
(***************************************************************************)
\* Buttons of sdl2::mouse::MouseButton and the match of lines 90-95.
PointerButtonOfWithExtra(mouse_btn) ==
    CASE mouse_btn = "Left" -> Some("Primary")
      [] mouse_btn = "Middle" -> Some("Middle")
      [] mouse_btn = "Right" -> Some("Secondary")
      [] mouse_btn = "X1" -> Some("Extra1")
      [] OTHER -> None
PointerButtonOf(mouse_btn) ==
    CASE mouse_btn = "Left" -> Some("Primary")
      [] mouse_btn = "Middle" -> Some("Middle")
      [] mouse_btn = "Right" -> Some("Secondary")
      [] OTHER -> None

\* The position a button event reports, for an sdl2 event at (x, y).
ButtonPosOwn(x, y) == Pos2(ToF32(x), ToF32(y))
ButtonPos(x, y) == pointer_pos

MouseButtonEvents(mouse_btn, pressed, x, y) ==
    LET btn == PointerButtonOf(mouse_btn)
    IN  IF btn.some
        THEN <<PointerButton(ButtonPos(x, y), btn.val, pressed, modifiers)>>
        ELSE <<>>

HandleMouseButtonDown(mouse_btn, x, y) ==
    /\ Handled([kind |-> "MouseButtonDown", mouse_btn |-> mouse_btn, x |-> x, y |-> y],
               Push(raw_input, MouseButtonEvents(mouse_btn, TRUE, x, y)))
    /\ UNCHANGED <<pointer_pos, modifiers, compositing, has_sent_ime_enabled>>

HandleMouseButtonUp(mouse_btn, x, y) ==
    /\ Handled([kind |-> "MouseButtonUp", mouse_btn |-> mouse_btn, x |-> x, y |-> y],
               Push(raw_input, MouseButtonEvents(mouse_btn, FALSE, x, y)))
    /\ UNCHANGED <<pointer_pos, modifiers, compositing, has_sent_ime_enabled>>

HandleMouseMotion(x, y) ==
    /\ pointer_pos' = Pos2(ToF32(x), ToF32(y))
    /\ Handled([kind |-> "MouseMotion", x |-> x, y |-> y],
               Push(raw_input, <<PointerMoved(pointer_pos')>>))
    /\ UNCHANGED <<modifiers, compositing, has_sent_ime_enabled>>

WheelScale == 8

WheelDeltaSwapped(x, y) == Pos2(ToF32(y) * WheelScale, ToF32(x) * WheelScale)
WheelDelta(x, y) == Pos2(ToF32(x) * WheelScale, ToF32(y) * WheelScale)

HandleMouseWheel(x, y) ==
    /\ Handled([kind |-> "MouseWheel", x |-> x, y |-> y],
               Push(raw_input, <<MouseWheel(WheelDelta(x, y), modifiers)>>))
    /\ UNCHANGED <<pointer_pos, modifiers, compositing, has_sent_ime_enabled>>

(***************************************************************************)
(* handle_event: keyboard                                                  *)
(***************************************************************************)
\* crate::ToEguiKey::to_egui_key: the letter keys have an egui key, the
\* modifier keys themselves have none.
ToEguiKey(keycode) ==
    IF keycode \in {"A", "C", "V", "X"} THEN Some(keycode) ELSE None

\* Lines 154-162 and 211-219: the flags read off the raw bitmask.
KeyModifiersSticky(keymod) ==
    [alt     |-> modifiers.alt \/ "LALTMOD" \in keymod \/ "RALTMOD" \in keymod,
     ctrl    |-> modifiers.ctrl \/ "LCTRLMOD" \in keymod \/ "RCTRLMOD" \in keymod,
     shift   |-> modifiers.shift \/ "LSHIFTMOD" \in keymod \/ "RSHIFTMOD" \in keymod,
     mac_cmd |-> modifiers.mac_cmd \/ "LGUIMOD" \in keymod,
     command |-> modifiers.command \/ "LCTRLMOD" \in keymod \/ "LGUIMOD" \in keymod]
KeyModifiers(keymod) ==
    [alt     |-> "LALTMOD" \in keymod \/ "RALTMOD" \in keymod,
     ctrl    |-> "LCTRLMOD" \in keymod \/ "RCTRLMOD" \in keymod,
     shift   |-> "LSHIFTMOD" \in keymod \/ "RSHIFTMOD" \in keymod,
     mac_cmd |-> "LGUIMOD" \in keymod,
     command |-> "LCTRLMOD" \in keymod \/ "LGUIMOD" \in keymod]

\* Whether this key down reads the clipboard (lines 166-172).
ReadsClipboard(keycode, keymod) ==
    /\ keycode.some
    /\ ToEguiKey(keycode.val) = Some("V")
    /\ KeyModifiers(keymod).ctrl

\* Lines 166-178: the events pushed ahead of the key event; `clip` is what
\* self.clipboard.get_text() returns, Some(txt) for Ok(txt) and None for Err.
\* (A build without the arboard feature has no V arm: it queues what a failed
\* read queues.)
CutCopyPasteSwallowsCopy(key, ctrl, clip) ==
    IF ~ctrl THEN <<>>
    ELSE CASE key = "X" -> <<Cut>>
           [] key = "V" /\ clip.some -> <<Paste(clip.val)>>
           [] OTHER -> <<>>
CutCopyPaste(key, ctrl, clip) ==
    IF ~ctrl THEN <<>>
    ELSE CASE key = "C" -> <<Copy>>
           [] key = "X" -> <<Cut>>
           [] key = "V" /\ clip.some -> <<Paste(clip.val)>>
           [] OTHER -> <<>>

HandleKeyDown(keycode, keymod, clip) ==
    LET event == [kind |-> "KeyDown", keycode |-> keycode, keymod |-> keymod,
                  clipboard |-> IF ReadsClipboard(keycode, keymod)
                                THEN Some(clip) ELSE None]
    IN  /\ IF keycode.some /\ ToEguiKey(keycode.val).some
           THEN LET key == ToEguiKey(keycode.val).val
                    m == KeyModifiers(keymod)
                    ri == Push(raw_input, CutCopyPaste(key, m.ctrl, clip))
                IN  /\ modifiers' = m
                    /\ Handled(event,
                               Push([ri EXCEPT !.modifiers = m], <<Key(key, TRUE, m)>>))
           ELSE /\ modifiers' = modifiers
                /\ Handled(event, raw_input)
        /\ UNCHANGED <<pointer_pos, compositing, has_sent_ime_enabled>>

\* Lines 231-238: what a key up with a mapped keycode pushes.
KeyUpEventsWithCommand(key, m) == CutCopyPaste(key, m.ctrl, None) \o <<Key(key, FALSE, m)>>
KeyUpEvents(key, m) == <<Key(key, FALSE, m)>>

HandleKeyUp(keycode, keymod) ==
    LET event == [kind |-> "KeyUp", keycode |-> keycode, keymod |-> keymod]
    IN  /\ IF keycode.some /\ ToEguiKey(keycode.val).some
           THEN LET key == ToEguiKey(keycode.val).val
                    m == KeyModifiers(keymod)
                IN  /\ modifiers' = m
                    /\ Handled(event,
                               Push([raw_input EXCEPT !.modifiers = m],
                                    KeyUpEvents(key, m)))
           ELSE /\ modifiers' = modifiers
                /\ Handled(event, raw_input)
        /\ UNCHANGED <<pointer_pos, compositing, has_sent_ime_enabled>>

(***************************************************************************)
(* handle_event: text input and IME composition                            *)
(***************************************************************************)
\* The part of the adapter the IME helpers touch: the queue and the flag.
ImeState(ri, sent) == [raw_input |-> ri, has_sent_ime_enabled |-> sent]

ime_event_enable_unguarded(s) ==
    ImeState(Push(s.raw_input, <<ImeEnabled>>), TRUE)
ime_event_enable(s) ==
    IF ~s.has_sent_ime_enabled
    THEN ImeState(Push(s.raw_input, <<ImeEnabled>>), TRUE)
    ELSE s

ime_event_disable_keeps_flag(s) ==
    ImeState(Push(s.raw_input, <<ImeDisabled>>), s.has_sent_ime_enabled)
ime_event_disable(s) ==
    ImeState(Push(s.raw_input, <<ImeDisabled>>), FALSE)

\* Lines 244-251, for the value std::mem::take(&mut self.compositing) returned.
TextInputDisableFirst(s, was_compositing, text) ==
    IF was_compositing
    THEN LET d == ime_event_disable(s)
         IN  ImeState(Push(d.raw_input, <<ImeCommit(text)>>), d.has_sent_ime_enabled)
    ELSE ImeState(Push(s.raw_input, <<Text(text)>>), s.has_sent_ime_enabled)
TextInput(s, was_compositing, text) ==
    IF was_compositing
    THEN ime_event_disable(
             ImeState(Push(s.raw_input, <<ImeCommit(text)>>), s.has_sent_ime_enabled))
    ELSE ImeState(Push(s.raw_input, <<Text(text)>>), s.has_sent_ime_enabled)

HandleTextInput(text) ==
    LET s == TextInput(ImeState(raw_input, has_sent_ime_enabled), compositing, text)
    IN  /\ compositing' = FALSE
        /\ has_sent_ime_enabled' = s.has_sent_ime_enabled
        /\ Handled([kind |-> "TextInput", text |-> text], s.raw_input)
        /\ UNCHANGED <<pointer_pos, modifiers>>

\* Line 260: the test that takes the composition-end branch.
EndsComposition(text, start, length) ==
    (start = 0 /\ length = 0) \/ text = ""

HandleTextEditing(text, start, length) ==
    LET event == [kind |-> "TextEditing", text |-> text, start |-> start,
                  length |-> length]
        s0 == ImeState(raw_input, has_sent_ime_enabled)
    IN  /\ IF EndsComposition(text, start, length)
           THEN LET s == ime_event_disable(s0)
                IN  /\ compositing' = compositing
                    /\ has_sent_ime_enabled' = s.has_sent_ime_enabled
                    /\ Handled(event, s.raw_input)
           ELSE LET s == ime_event_enable(s0)
                IN  /\ compositing' = TRUE
                    /\ has_sent_ime_enabled' = s.has_sent_ime_enabled
                    /\ Handled(event, Push(s.raw_input, <<ImePreedit(text)>>))
        /\ UNCHANGED <<pointer_pos, modifiers>>

(***************************************************************************)
(* handle_event: window events and everything else; change_target          *)
(***************************************************************************)
HandleWindow(win_event, w, h) ==
    LET event == [kind |-> "Window", win_event |-> win_event, w |-> w, h |-> h]
    IN  /\ IF win_event \in {"Resized", "SizeChanged"}
           THEN Handled(event,
                    [raw_input EXCEPT !.screen_rect =
                        Some(RectFromMinSize(Pos2ZERO, Pos2(ToF32(w), ToF32(h))))])
           ELSE Handled(event, raw_input)
        /\ UNCHANGED <<pointer_pos, modifiers, compositing, has_sent_ime_enabled>>

HandleOther(kind) ==
    /\ Handled([kind |-> kind], raw_input)
    /\ UNCHANGED <<pointer_pos, modifiers, compositing, has_sent_ime_enabled>>

ChangeTarget(rect) ==
    /\ raw_input' = [raw_input EXCEPT !.screen_rect = Some(rect)]
    /\ begun' = None
    /\ Called([kind |-> "change_target", rect |-> rect], <<>>)
    /\ UNCHANGED <<pointer_pos, modifiers, compositing, has_sent_ime_enabled,
                   egui_ctx, pending, outVars>>

(***************************************************************************)
(* The frame cycle: update_time, context, set_pixels_per_point, end_frame  *)
(***************************************************************************)
UpdateTime(duration) ==
    /\ raw_input' = [raw_input EXCEPT !.time = Some(duration)]
    /\ begun' = None
    /\ Called([kind |-> "update_time", duration |-> duration], <<>>)
    /\ UNCHANGED <<pointer_pos, modifiers, compositing, has_sent_ime_enabled,
                   egui_ctx, pending, outVars>>

\* egui::RawInput::take: the events and the screen rect move out, the time and
\* the modifiers are copied.
RawInputTakeKeepsEvents(ri) ==
    [taken |-> ri, left |-> [ri EXCEPT !.screen_rect = None]]
RawInputTake(ri) ==
    [taken |-> ri, left |-> [ri EXCEPT !.events = <<>>, !.screen_rect = None]]

\* self.egui_ctx.begin_pass(self.raw_input.take()), then `ppp` set on the context.
BeginPass(ppp) ==
    LET t == RawInputTake(raw_input)
    IN  /\ raw_input' = t.left
        /\ begun' = Some(t.taken)
        /\ egui_ctx' = [pixels_per_point |-> ppp, in_pass |-> TRUE]
        /\ pending' = 0

Context ==
    /\ BeginPass(egui_ctx.pixels_per_point)
    /\ Called([kind |-> "context"], <<>>)
    /\ UNCHANGED <<pointer_pos, modifiers, compositing, has_sent_ime_enabled, outVars>>

SetPixelsPerPoint(pixels_per_point) ==
    /\ BeginPass(pixels_per_point)
    /\ Called([kind |-> "set_pixels_per_point", pixels_per_point |-> pixels_per_point],
              <<>>)
    /\ UNCHANGED <<pointer_pos, modifiers, compositing, has_sent_ime_enabled, outVars>>

\* egui's end_pass ends a pass that was begun.
EndFrame ==
    /\ egui_ctx.in_pass
    /\ egui_ctx' = [egui_ctx EXCEPT !.in_pass = FALSE]
    /\ begun' = None
    /\ Called([kind |-> "end_frame"], <<>>)
    /\ UNCHANGED <<pointer_pos, modifiers, raw_input, compositing,
                   has_sent_ime_enabled, pending, outVars>>

\* No handler of input reads or writes the cursor fields: the input side
\* is explored from the construction that acquired the arrow cursor.
InitInput == Init /\ cursor = Some("Arrow")

(***************************************************************************)
(* Output application: autoupdate_platform, handle_platform_cmd            *)
(***************************************************************************)
CopyText(text) == [cmd |-> "CopyText", text |-> text]
CopyImage(img) == [cmd |-> "CopyImage", image |-> img]
OpenUrl(url) == [cmd |-> "OpenUrl", url |-> url]

\* handle_platform_cmd(cmd), `ok` telling whether the platform call succeeds:
\* what it returns and what it leaves on the clipboard `clip`.
HandlePlatformCmd(cmd, ok, clip) ==
    [ok |-> ok,
     clipboard |-> IF ~ok THEN clip
                   ELSE CASE cmd.cmd = "CopyText" -> Some([text |-> cmd.text])
                          [] cmd.cmd = "CopyImage" -> Some([image |-> cmd.image])
                          [] OTHER -> clip]

\* Lines 316-318: the commands from the i-th on, run in order, `?` returning at
\* the first that fails; `fails` holds the positions whose platform call fails.
\* The commands run with their outcomes, and the clipboard afterwards.
RECURSIVE RunCommandsBestEffort(_, _, _, _)
RunCommandsBestEffort(cmds, fails, i, clip) ==
    IF i > Len(cmds) THEN [ran |-> <<>>, clipboard |-> clip]
    ELSE LET r == HandlePlatformCmd(cmds[i], i \notin fails, clip)
             rest == RunCommandsBestEffort(cmds, fails, i + 1, r.clipboard)
         IN  [ran |-> <<[cmd |-> cmds[i], ok |-> r.ok]>> \o rest.ran,
              clipboard |-> rest.clipboard]

RECURSIVE RunCommands(_, _, _, _)
RunCommands(cmds, fails, i, clip) ==
    IF i > Len(cmds) THEN [ran |-> <<>>, clipboard |-> clip]
    ELSE LET r == HandlePlatformCmd(cmds[i], i \notin fails, clip)
         IN  IF ~r.ok
             THEN [ran |-> <<[cmd |-> cmds[i], ok |-> FALSE]>>, clipboard |-> r.clipboard]
             ELSE LET rest == RunCommands(cmds, fails, i + 1, r.clipboard)
                  IN  [ran |-> <<[cmd |-> cmds[i], ok |-> TRUE]>> \o rest.ran,
                       clipboard |-> rest.clipboard]

\* Lines 322-337: the system cursor of an egui cursor icon.
SystemCursorOf(cursor_icon) ==
    CASE cursor_icon = "Crosshair" -> "Crosshair"
      [] cursor_icon = "Default" -> "Arrow"
      [] cursor_icon = "Grab" -> "Hand"
      [] cursor_icon = "Grabbing" -> "SizeAll"
      [] cursor_icon = "Move" -> "SizeAll"
      [] cursor_icon = "PointingHand" -> "Hand"
      [] cursor_icon = "ResizeHorizontal" -> "SizeWE"
      [] cursor_icon = "ResizeNeSw" -> "SizeNESW"
      [] cursor_icon = "ResizeNwSe" -> "SizeNWSE"
      [] cursor_icon = "ResizeVertical" -> "SizeNS"
      [] cursor_icon = "Text" -> "IBeam"
      [] cursor_icon \in {"NotAllowed", "NoDrop"} -> "No"
      [] cursor_icon = "Wait" -> "Wait"
      [] OTHER -> "Arrow"

\* Lines 320-346, for the fields c = [cursor, system_cursor, set] (set: the
\* cursor the platform shows); `created` tells whether Cursor::from_system
\* succeeds.  The fields afterwards, and what `?` makes of the call.
UpdateCursorSwallowsError(c, new_cursor, created) ==
    IF ~c.cursor.some \/ c.system_cursor = new_cursor
    THEN [cursor |-> c.cursor, system_cursor |-> c.system_cursor, set |-> c.set,
          result |-> "Ok"]
    ELSE IF created
         THEN [cursor |-> Some(new_cursor), system_cursor |-> new_cursor,
               set |-> new_cursor, result |-> "Ok"]
         ELSE [cursor |-> c.cursor, system_cursor |-> new_cursor, set |-> c.set,
               result |-> "Ok"]
UpdateCursor(c, new_cursor, created) ==
    IF ~c.cursor.some \/ c.system_cursor = new_cursor
    THEN [cursor |-> c.cursor, system_cursor |-> c.system_cursor, set |-> c.set,
          result |-> "Ok"]
    ELSE IF created
         THEN [cursor |-> Some(new_cursor), system_cursor |-> new_cursor,
               set |-> new_cursor, result |-> "Ok"]
         ELSE [cursor |-> c.cursor, system_cursor |-> new_cursor, set |-> c.set,
               result |-> "Err"]

AutoupdatePlatform(output, fails, created) ==
    LET run == RunCommands(output.commands, fails, 1, os.clipboard)
        failed == \E i \in 1..Len(run.ran) : ~run.ran[i].ok
        c == UpdateCursor([cursor |-> cursor, system_cursor |-> system_cursor,
                           set |-> os.cursor],
                          SystemCursorOf(output.cursor_icon), created)
    IN  /\ applied' = Some([output |-> output, fails |-> fails, created |-> created])
        /\ ran' = run.ran
        /\ IF failed
           THEN /\ result' = "Err"
                /\ os' = [os EXCEPT !.clipboard = run.clipboard]
                /\ UNCHANGED <<cursor, system_cursor>>
           ELSE /\ result' = c.result
                /\ cursor' = c.cursor
                /\ system_cursor' = c.system_cursor
                /\ os' = [cursor |-> c.set, clipboard |-> run.clipboard]
        /\ begun' = None
        /\ Called([kind |-> "autoupdate_platform"], <<>>)
        /\ UNCHANGED <<pointer_pos, modifiers, raw_input, compositing,
                       has_sent_ime_enabled, egui_ctx, pending>>

(***************************************************************************)
(* Inputs                                                                  *)
(***************************************************************************)
MouseButtons == {"Left", "Middle", "Right", "X1"}
ButtonAt == {<<5, 6>>}
Motions == {<<100, 200>>, <<3, 4>>, <<16777217, 0 - 16777219>>}
WheelTicks == {0 - 16777219, 0 - 3, 0, 1, 16777217}

NoKeycodes == {None, Some("LShift")}
LetterKeycodes == {Some("A"), Some("C"), Some("V"), Some("X")}
CtrlKeymods == {{}, {"LCTRLMOD"}, {"RCTRLMOD"}}
Keymods == CtrlKeymods \cup
    {{"LGUIMOD"}, {"LSHIFTMOD", "RALTMOD"}, {"RGUIMOD", "RSHIFTMOD", "LALTMOD", "NUMMOD"}}
KeyPresses ==
    (LetterKeycodes \X CtrlKeymods) \cup ({Some("A")} \X Keymods) \cup (NoKeycodes \X Keymods)
ClipReads == {None, Some("clip")}

Texts == {"x", "ni"}
Compositions == {"", "ni"} \X {0, 1} \X {0, 2}

CoreMotions == {<<100, 200>>}
CoreButtons == {"Left", "X1"}
CoreWheels == {<<1, 0 - 3>>}
CoreKeyPresses == {<<None, {}>>, <<Some("C"), {"LCTRLMOD"}>>}
CoreTexts == {"x"}
CoreCompositions == {<<"ni", 0, 2>>, <<"", 0, 0>>}
WindowEvents == {"Resized", "Moved"}
WindowSizes == {<<640, 480>>}
OtherEvents == {"Quit"}
Targets == {RectFromMinSize(Pos2(10, 10), Pos2(100, 100))}
Durations == {1}
Scales == {2}

CommandBatches ==
    {<<>>, <<CopyText("t")>>, <<OpenUrl("u"), CopyText("t")>>,
     <<CopyText("t"), CopyImage("img"), OpenUrl("u")>>}
CursorIcons == {"Default", "Text", "Help"}
Outputs == [commands : CommandBatches, cursor_icon : CursorIcons]

(***************************************************************************)
(* Specifications                                                          *)
(***************************************************************************)
\* Every operation of the adapter, over the core inputs.
Next ==
    \/ \E b \in CoreButtons, p \in ButtonAt : HandleMouseButtonDown(b, p[1], p[2])
    \/ \E b \in {"Left"}, p \in ButtonAt : HandleMouseButtonUp(b, p[1], p[2])
    \/ \E p \in CoreMotions : HandleMouseMotion(p[1], p[2])
    \/ \E d \in CoreWheels : HandleMouseWheel(d[1], d[2])
    \/ \E k \in CoreKeyPresses, c \in ClipReads : HandleKeyDown(k[1], k[2], c)
    \/ \E k \in CoreKeyPresses : HandleKeyUp(k[1], k[2])
    \/ \E t \in CoreTexts : HandleTextInput(t)
    \/ \E c \in CoreCompositions : HandleTextEditing(c[1], c[2], c[3])
    \/ \E e \in WindowEvents, z \in WindowSizes : HandleWindow(e, z[1], z[2])
    \/ \E e \in OtherEvents : HandleOther(e)
    \/ \E r \in Targets : ChangeTarget(r)
    \/ \E t \in Durations : UpdateTime(t)
    \/ \E p \in Scales : SetPixelsPerPoint(p)
    \/ Context
    \/ EndFrame

Spec == InitInput /\ [][Next]_vars

\* The pointer: buttons, motion and the wheel, between frame begins.
NextPointer ==
    \/ \E b \in MouseButtons, p \in ButtonAt : HandleMouseButtonDown(b, p[1], p[2])
    \/ \E b \in MouseButtons, p \in ButtonAt : HandleMouseButtonUp(b, p[1], p[2])
    \/ \E p \in Motions : HandleMouseMotion(p[1], p[2])
    \/ \E x \in WheelTicks, y \in WheelTicks : HandleMouseWheel(x, y)
    \/ Context

SpecPointer == InitInput /\ [][NextPointer]_vars

\* The keyboard: key down and key up, between frame begins.
NextKey ==
    \/ \E k \in KeyPresses, c \in ClipReads : HandleKeyDown(k[1], k[2], c)
    \/ \E k \in KeyPresses : HandleKeyUp(k[1], k[2])
    \/ Context

SpecKey == InitInput /\ [][NextKey]_vars

\* Text: committed text and composition updates, between frame begins.
NextIme ==
    \/ \E t \in Texts : HandleTextInput(t)
    \/ \E c \in Compositions : HandleTextEditing(c[1], c[2], c[3])
    \/ Context

SpecIme == InitInput /\ [][NextIme]_vars

\* Events the adapter has no arm or no mapping for, among the events that set
\* the fields they could disturb.
IgnoredButtons == {"X1", "X2"}
IgnoredKeyPresses == NoKeycodes \X {{}, {"LCTRLMOD", "LSHIFTMOD"}}
IgnoredWindowEvents == {"Moved", "FocusGained"}
IgnoredEvents == {"Quit", "JoyButtonDown"}

NextIgnored ==
    \/ \E b \in IgnoredButtons, p \in ButtonAt : HandleMouseButtonDown(b, p[1], p[2])
    \/ \E b \in IgnoredButtons, p \in ButtonAt : HandleMouseButtonUp(b, p[1], p[2])
    \/ \E p \in CoreMotions : HandleMouseMotion(p[1], p[2])
    \/ \E k \in IgnoredKeyPresses \cup {<<Some("V"), {"LCTRLMOD"}>>}, c \in {Some("clip")} :
          HandleKeyDown(k[1], k[2], c)
    \/ \E k \in IgnoredKeyPresses : HandleKeyUp(k[1], k[2])
    \/ \E c \in CoreCompositions : HandleTextEditing(c[1], c[2], c[3])
    \/ \E e \in IgnoredWindowEvents \cup {"Resized"}, z \in WindowSizes :
          HandleWindow(e, z[1], z[2])
    \/ \E e \in IgnoredEvents : HandleOther(e)
    \/ Context

SpecIgnored == InitInput /\ [][NextIgnored]_vars

\* Output application, between frames.
NextOutput ==
    \/ \E o \in Outputs, c \in BOOLEAN :
          \E f \in SUBSET (1..Len(o.commands)) : AutoupdatePlatform(o, f, c)
    \/ Context
    \/ EndFrame

SpecOutput == Init /\ [][NextOutput]_vars

(***************************************************************************)
(* Properties                                                              *)
(***************************************************************************)
FrameBegins == {"context", "set_pixels_per_point"}
MappedButtons == {"Left", "Middle", "Right"}

\* C1: right after a frame begin the pending event queue is empty, whatever
\* was handled before it; and a frame begin that directly follows another
\* frame begin hands the toolkit an empty event list.
C1_QueueEmptyAfterFrameBegin ==
    /\ last_call.kind \in FrameBegins => raw_input.events = <<>> /\ begun.some
    /\ (last_call.kind \in FrameBegins /\ prev_call.kind \in FrameBegins)
          => begun.val.events = <<>>

\* Two frame begins in a row, after events had been handled and handed over.
C1_Witness ==
    /\ last_call.kind = "context"
    /\ prev_call.kind = "context"
    /\ begun.some /\ begun.val.events = <<>>
    /\ raw_input.events = <<>>
    /\ obs.moved # Pos2ZERO

\* C2: a mapped mouse button event queues exactly one pointer-button event,
\* whose position is the position of the most recent pointer-moved event the
\* adapter emitted (the origin if there was none), not the button event's own
\* coordinates; MouseMotion(100,200) then MouseButtonDown(Left) on a fresh
\* adapter queues pointer-moved(100,200), pointer-button(primary, pressed,
\* (100,200)).
C2_ButtonAtPointerPos ==
    /\ obs.button_at_moved
    /\ (last_call.kind \in {"MouseButtonDown", "MouseButtonUp"}
            /\ last_call.mouse_btn \in MappedButtons)
          => /\ Len(emitted) = 1
             /\ emitted[1].type = "PointerButton"
             /\ emitted[1].pos = obs.moved
             /\ emitted[1].pressed = (last_call.kind = "MouseButtonDown")
    /\ (ncalls = 2
            /\ prev_call = [kind |-> "MouseMotion", x |-> 100, y |-> 200]
            /\ last_call.kind = "MouseButtonDown" /\ last_call.mouse_btn = "Left")
          => raw_input.events =
                <<PointerMoved(Pos2(100, 200)),
                  PointerButton(Pos2(100, 200), "Primary", TRUE, ModifiersDefault)>>

\* MouseMotion(100,200) then MouseButtonDown(Left) at other coordinates.
C2_Witness ==
    /\ ncalls = 2
    /\ prev_call = [kind |-> "MouseMotion", x |-> 100, y |-> 200]
    /\ last_call.kind = "MouseButtonDown" /\ last_call.mouse_btn = "Left"
    /\ Pos2(last_call.x, last_call.y) # Pos2(100, 200)
    /\ Len(raw_input.events) = 2
    /\ raw_input.events[2].type = "PointerButton"
    /\ raw_input.events[2].pos = Pos2(100, 200)

KeyEvents == {"KeyDown", "KeyUp"}

\* The last call was a key event whose keycode has a logical key.
MappedKeyEvent ==
    /\ last_call.kind \in KeyEvents
    /\ last_call.keycode \in LetterKeycodes

Held(keymod, left, right) == left \in keymod \/ right \in keymod

\* The flags as a function of the raw bitmask alone.
FlagsOf(keymod) ==
    [alt     |-> Held(keymod, "LALTMOD", "RALTMOD"),
     ctrl    |-> Held(keymod, "LCTRLMOD", "RCTRLMOD"),
     shift   |-> Held(keymod, "LSHIFTMOD", "RSHIFTMOD"),
     mac_cmd |-> "LGUIMOD" \in keymod,
     command |-> Held(keymod, "LCTRLMOD", "LGUIMOD")]

\* C3 as claimed: after any key event, mapped or not, the modifier flags are
\* a function of that event's raw bitmask alone, and the same bitmask fed
\* twice leaves the same flags both times.
C3_AnyKeyEvent ==
    /\ last_call.kind \in KeyEvents => modifiers = FlagsOf(last_call.keymod)
    /\ (last_call.kind \in KeyEvents /\ prev_call.kind \in KeyEvents
            /\ last_call.keymod = prev_call.keymod)
          => modifiers = before.modifiers

\* C3 as amended: after a key event whose keycode maps to a logical key the
\* modifier flags are a function of that event's raw bitmask alone, whatever
\* the adapter's state was, and the same bitmask fed twice to mapped keys
\* leaves the same flags both times; a key event with no keycode or an
\* unmapped one leaves the flags as they were.
C3_MappedKeyEvent ==
    /\ MappedKeyEvent
          => /\ modifiers = FlagsOf(last_call.keymod)
             /\ raw_input.modifiers = modifiers
    /\ (MappedKeyEvent /\ prev_call.kind \in KeyEvents
            /\ prev_call.keycode \in LetterKeycodes
            /\ last_call.keymod = prev_call.keymod)
          => modifiers = before.modifiers
    /\ (last_call.kind \in KeyEvents /\ ~MappedKeyEvent)
          => modifiers = before.modifiers

\* A mapped key event arriving with other flags set than its bitmask holds.
C3_Witness ==
    /\ MappedKeyEvent
    /\ before.modifiers.shift /\ before.modifiers.alt
    /\ last_call.keymod = {"RCTRLMOD"}
    /\ modifiers.ctrl /\ ~modifiers.shift /\ ~modifiers.alt

\* C4: in the stream of events the adapter emits, across frame begins, two
\* IME-enabled notifications never occur without an IME-disabled notification
\* between them.
C4_EnabledOncePerComposition == ~obs.enabled_twice

\* A composition update arriving after IME-enabled went out in an earlier
\* frame: it queues the preedit alone.
C4_Witness ==
    /\ last_call.kind = "TextEditing"
    /\ before.has_sent_ime_enabled
    /\ pending = 1
    /\ obs.ime = "Enabled"
    /\ emitted = <<ImePreedit(last_call.text)>>

\* C5 as claimed: a TextInput arriving while composing queues an IME-commit
\* with its text and an IME-disabled notification at or before that commit;
\* one arriving while not composing queues the plain text event alone.
C5_DisabledAtOrBeforeCommit ==
    last_call.kind = "TextInput"
       => IF before.compositing
          THEN \E i, j \in 1..Len(emitted) :
                  /\ i <= j
                  /\ emitted[i] = ImeDisabled
                  /\ emitted[j] = ImeCommit(last_call.text)
          ELSE emitted = <<Text(last_call.text)>>

\* C5 as amended: a TextInput arriving while composing queues exactly the
\* IME-commit with its text followed by the IME-disabled notification; one
\* arriving while not composing queues the plain text event alone.
C5_CommitThenDisabled ==
    last_call.kind = "TextInput"
       => /\ IF before.compositing
             THEN emitted = <<ImeCommit(last_call.text), ImeDisabled>>
             ELSE emitted = <<Text(last_call.text)>>
          /\ ~compositing

\* A commit that ends a composition.
C5_Witness ==
    /\ last_call.kind = "TextInput"
    /\ before.compositing
    /\ Len(emitted) = 2
    /\ emitted[1].ime = "Commit"
    /\ emitted[2].ime = "Disabled"

\* C6: on a fresh adapter TextEditing("ni", 0, 2) then TextEditing("", 0, 0)
\* queues exactly IME-enabled, IME-preedit("ni"), IME-disabled, and the
\* composition flag is false afterwards.
C6_CompositionEndClearsFlag ==
    (/\ ncalls = 2
     /\ prev_call = [kind |-> "TextEditing", text |-> "ni", start |-> 0, length |-> 2]
     /\ last_call = [kind |-> "TextEditing", text |-> "", start |-> 0, length |-> 0])
       => /\ raw_input.events = <<ImeEnabled, ImePreedit("ni"), ImeDisabled>>
          /\ compositing = FALSE

\* C7: a KeyDown of a mapped key queues the key-press (pressed, with the
\* event's modifiers) last, and ahead of it Copy for ctrl+C, Cut for ctrl+X,
\* Paste with the clipboard text for ctrl+V when the clipboard read
\* succeeded, and nothing otherwise; without ctrl it queues the key-press
\* alone.
C7_CutCopyPasteThenKey ==
    (last_call.kind = "KeyDown" /\ last_call.keycode \in LetterKeycodes)
       => LET key == last_call.keycode.val
              ctrl == Held(last_call.keymod, "LCTRLMOD", "RCTRLMOD")
              read == last_call.clipboard
              ahead == IF ~ctrl THEN <<>>
                       ELSE CASE key = "C" -> <<Copy>>
                              [] key = "X" -> <<Cut>>
                              [] key = "V" /\ read.some /\ read.val.some ->
                                    <<Paste(read.val.val)>>
                              [] OTHER -> <<>>
              press == emitted[Len(emitted)]
          IN  /\ emitted = Append(ahead, press)
              /\ press.type = "Key"
              /\ press.key = key
              /\ press.pressed
              /\ press.modifiers.ctrl = ctrl
              /\ (key = "V" /\ ctrl) => read.some

\* Ctrl+C: the copy, then the key-press with ctrl set.
C7_Witness ==
    /\ last_call.kind = "KeyDown"
    /\ last_call.keycode = Some("C")
    /\ last_call.keymod = {"RCTRLMOD"}
    /\ Len(emitted) = 2
    /\ emitted[1] = Copy
    /\ emitted[2].type = "Key" /\ emitted[2].key = "C" /\ emitted[2].modifiers.ctrl

Abs(n) == IF n < 0 THEN 0 - n ELSE n

\* C8 as claimed: a MouseWheel event with raw deltas (x, y) queues exactly one
\* scroll event, with delta exactly (x * 8, y * 8) and unit point.
C8_DeltaExactlyTimesEight ==
    last_call.kind = "MouseWheel"
       => /\ Len(emitted) = 1
          /\ emitted[1].type = "MouseWheel"
          /\ emitted[1].unit = "Point"
          /\ emitted[1].delta = Pos2(last_call.x * 8, last_call.y * 8)

\* C8 as amended: a MouseWheel event with raw deltas (x, y) queues exactly one
\* scroll event with unit point, whose delta is (x, y) converted to f32 and
\* multiplied by 8: exactly (x * 8, y * 8) on every axis whose raw delta is
\* at most 2^24 in magnitude.
C8_DeltaTimesEightInF32 ==
    last_call.kind = "MouseWheel"
       => /\ Len(emitted) = 1
          /\ emitted[1].type = "MouseWheel"
          /\ emitted[1].unit = "Point"
          /\ emitted[1].delta = Pos2(ToF32(last_call.x) * 8, ToF32(last_call.y) * 8)
          /\ Abs(last_call.x) <= 2^24 => emitted[1].delta[1] = last_call.x * 8
          /\ Abs(last_call.y) <= 2^24 => emitted[1].delta[2] = last_call.y * 8

\* A wheel event with one delta in the exact range and one beyond it.
C8_Witness ==
    /\ last_call.kind = "MouseWheel"
    /\ last_call.x = 16777217 /\ last_call.y = 0 - 3
    /\ emitted[1].delta = Pos2(134217728, 0 - 24)

\* C9: after a key event with a mapped keycode, alt, ctrl and shift are set
\* exactly when the left or the right key of that name is in the bitmask,
\* platform-meta exactly when left-GUI is, logical-command exactly when ctrl
\* or platform-meta is; and the queued key event carries the same flags.
C9_CommandIsCtrlOrMeta ==
    MappedKeyEvent
       => /\ modifiers.alt = Held(last_call.keymod, "LALTMOD", "RALTMOD")
          /\ modifiers.ctrl = Held(last_call.keymod, "LCTRLMOD", "RCTRLMOD")
          /\ modifiers.shift = Held(last_call.keymod, "LSHIFTMOD", "RSHIFTMOD")
          /\ modifiers.mac_cmd = ("LGUIMOD" \in last_call.keymod)
          /\ modifiers.command = (modifiers.ctrl \/ modifiers.mac_cmd)
          /\ emitted[Len(emitted)].modifiers = modifiers

\* C10: a TextEditing event ends the composition (IME-disabled queued alone,
\* composition flag cleared) exactly when its range is empty and its text is
\* empty; any other one queues IME-enabled if it was not announced yet and
\* then the preedit with its text, and sets the composition flag.
C10_EndsOnlyWhenRangeAndTextEmpty ==
    last_call.kind = "TextEditing"
       => IF last_call.start = 0 /\ last_call.length = 0 /\ last_call.text = ""
          THEN /\ emitted = <<ImeDisabled>>
               /\ ~compositing
               /\ ~has_sent_ime_enabled
          ELSE /\ emitted = (IF before.has_sent_ime_enabled THEN <<>> ELSE <<ImeEnabled>>)
                               \o <<ImePreedit(last_call.text)>>
               /\ compositing
               /\ has_sent_ime_enabled

Min(S) == CHOOSE i \in S : \A j \in S : i <= j
Max(S) == CHOOSE i \in S : \A j \in S : j <= i

LastUpdate == last_call.kind = "autoupdate_platform"

\* What the commands cmds[1..n], all succeeding, leave on a clipboard that
\* held `clip`: the content of the last copy among them.
ClipboardAfter(cmds, n, clip) ==
    LET copies == {i \in 1..n : cmds[i].cmd \in {"CopyText", "CopyImage"}}
    IN  IF copies = {} THEN clip
        ELSE LET c == cmds[Max(copies)]
             IN  IF c.cmd = "CopyText" THEN Some([text |-> c.text])
                 ELSE Some([image |-> c.image])

\* C11: autoupdate_platform runs the commands in order; with no failing
\* command each one runs exactly once; at the first failing command the call
\* returns the error, no later command runs, the cursor fields and the cursor
\* shown are left as they were, and what the earlier commands did stays done.
C11_CommandsInOrderFailFast ==
    LastUpdate
       => LET cmds == applied.val.output.commands
              fails == applied.val.fails
          IN  IF fails = {}
              THEN /\ Len(ran) = Len(cmds)
                   /\ \A i \in 1..Len(cmds) : ran[i] = [cmd |-> cmds[i], ok |-> TRUE]
                   /\ os.clipboard = ClipboardAfter(cmds, Len(cmds), before.os.clipboard)
              ELSE LET k == Min(fails)
                   IN  /\ Len(ran) = k
                       /\ \A i \in 1..(k - 1) : ran[i] = [cmd |-> cmds[i], ok |-> TRUE]
                       /\ ran[k] = [cmd |-> cmds[k], ok |-> FALSE]
                       /\ result = "Err"
                       /\ cursor = before.cursor
                       /\ system_cursor = before.system_cursor
                       /\ os.cursor = before.os.cursor
                       /\ os.clipboard = ClipboardAfter(cmds, k - 1, before.os.clipboard)

\* Three commands of which the second and the third would fail, with a cursor
\* change requested: the text is on the clipboard, the third never ran.
C11_Witness ==
    /\ LastUpdate
    /\ applied.val.output.commands = <<CopyText("t"), CopyImage("img"), OpenUrl("u")>>
    /\ applied.val.fails = {2, 3}
    /\ before.cursor.some
    /\ before.system_cursor # SystemCursorOf(applied.val.output.cursor_icon)
    /\ before.os.clipboard = None
    /\ os.clipboard = Some([text |-> "t"])
    /\ Len(ran) = 2
    /\ result = "Err"

\* The most recent call was an autoupdate_platform whose commands all
\* succeeded, on an adapter constructed without a native cursor.
UpdateWithoutCursor ==
    LastUpdate /\ applied.val.fails = {} /\ ~before.cursor.some

\* The most recent call was an autoupdate_platform whose commands all
\* succeeded, which asked for another cursor kind than the recorded one and
\* could not create it.
CursorChangeFailed ==
    /\ LastUpdate /\ applied.val.fails = {}
    /\ before.cursor.some
    /\ before.system_cursor # SystemCursorOf(applied.val.output.cursor_icon)
    /\ ~applied.val.created

\* C12 as stated: failing to acquire a native cursor is not an error, at
\* construction (the adapter goes on without a cursor) and at cursor-change
\* time (the call does not return an error).
C12_CursorFailureNeverAnError ==
    /\ UpdateWithoutCursor => result = "Ok" /\ ~cursor.some
    /\ CursorChangeFailed => result = "Ok"

\* C12: failing to acquire the arrow cursor at construction is not an error:
\* the adapter goes on without a cursor, and its output application never
\* creates or sets one.  Failing to create the cursor at cursor-change time is
\* returned as the error of that autoupdate_platform call, after every
\* command has run; the handle and the cursor shown stay as they were.
C12_CursorFailureFatalOnlyOnChange ==
    /\ UpdateWithoutCursor
          => /\ result = "Ok"
             /\ ~cursor.some
             /\ os.cursor = before.os.cursor
    /\ CursorChangeFailed
          => /\ result = "Err"
             /\ Len(ran) = Len(applied.val.output.commands)
             /\ cursor = before.cursor
             /\ os.cursor = before.os.cursor

\* A text cursor was set, then an output that copies a text and asks for the
\* arrow again meets a failing cursor creation.
C12_Witness ==
    /\ CursorChangeFailed
    /\ applied.val.output = [commands |-> <<CopyText("t")>>, cursor_icon |-> "Default"]
    /\ before.cursor = Some("IBeam")
    /\ os.cursor = "IBeam"
    /\ ran = <<[cmd |-> CopyText("t"), ok |-> TRUE]>>
    /\ result = "Err"

\* C14: whenever a native cursor handle is present, the recorded cursor kind
\* is the kind the handle was made from; an autoupdate_platform replaces the
\* handle only when the kind asked for differs from the recorded one; and
\* without a handle the recorded kind stays the arrow of construction.
C14_RecordedKindIsHandleKind ==
    /\ cursor.some => system_cursor = cursor.val
    /\ (LastUpdate /\ cursor # before.cursor)
          => SystemCursorOf(applied.val.output.cursor_icon) # before.system_cursor
    /\ ~cursor.some => system_cursor = "Arrow"

\* C13: a set_pixels_per_point call only forwards the scale factor: it leaves
\* the queue as it was and begins no frame, so that the events handled before
\* it are still in the queue for the next frame begin.
C13_SetPixelsPerPointOnlyForwards ==
    [][last_call'.kind = "set_pixels_per_point"
          => /\ egui_ctx'.pixels_per_point = last_call'.pixels_per_point
             /\ raw_input' = raw_input
             /\ begun' = None
             /\ egui_ctx'.in_pass = egui_ctx.in_pass]_vars

\* C15: a KeyUp event with a mapped keycode queues exactly one event, the key
\* event of that key with pressed = false, carrying the modifier flags just
\* recomputed from the event's bitmask; it queues no copy, cut or paste,
\* whatever the key and the modifiers.
C15_KeyUpQueuesOneRelease ==
    (last_call.kind = "KeyUp" /\ last_call.keycode \in LetterKeycodes)
       => /\ Len(emitted) = 1
          /\ emitted[1].type = "Key"
          /\ emitted[1].key = last_call.keycode.val
          /\ ~emitted[1].pressed
          /\ emitted[1].modifiers = modifiers
          /\ modifiers.alt = Held(last_call.keymod, "LALTMOD", "RALTMOD")
          /\ modifiers.ctrl = Held(last_call.keymod, "LCTRLMOD", "RCTRLMOD")
          /\ modifiers.shift = Held(last_call.keymod, "LSHIFTMOD", "RSHIFTMOD")
          /\ modifiers.mac_cmd = ("LGUIMOD" \in last_call.keymod)
          /\ \A i \in 1..Len(emitted) : emitted[i].type \notin {"Copy", "Cut", "Paste"}

\* Ctrl+X released while other flags than ctrl were set.
C15_Witness ==
    /\ last_call.kind = "KeyUp"
    /\ last_call.keycode = Some("X")
    /\ last_call.keymod = {"LCTRLMOD"}
    /\ before.modifiers.shift /\ ~before.modifiers.ctrl
    /\ emitted = <<Key("X", FALSE, modifiers)>>
    /\ modifiers.ctrl /\ ~modifiers.shift

\* A call of handle_event with an event the adapter ignores: a key event
\* without a keycode or with an unmapped one, a button event of another button
\* than left, middle and right, a window event other than resized and
\* size-changed, an event of any other kind.
Ignored(call) ==
    \/ /\ call.kind \in KeyEvents
       /\ ~(call.keycode.some /\ ToEguiKey(call.keycode.val).some)
    \/ /\ call.kind \in {"MouseButtonDown", "MouseButtonUp"}
       /\ call.mouse_btn \notin MappedButtons
    \/ /\ call.kind = "Window"
       /\ call.win_event \notin {"Resized", "SizeChanged"}
    \/ call.kind \in IgnoredEvents

\* C16: handling an ignored event queues nothing and leaves the queue, the
\* screen region, the pointer position, the modifier flags, the composition
\* flag and the announced flag as they were.
C16_IgnoredInputChangesNothing ==
    [][Ignored(last_call')
          => /\ emitted' = <<>>
             /\ raw_input' = raw_input
             /\ pointer_pos' = pointer_pos
             /\ modifiers' = modifiers
             /\ compositing' = compositing
             /\ has_sent_ime_enabled' = has_sent_ime_enabled]_vars

\* A press of the fourth mouse button arriving during a composition whose
\* events are still queued, after a pointer motion and a ctrl key press.
C16_Witness ==
    /\ last_call.kind = "MouseButtonDown" /\ last_call.mouse_btn = "X1"
    /\ emitted = <<>>
    /\ raw_input.events = <<ImeEnabled, ImePreedit("ni")>>
    /\ pointer_pos = Pos2(100, 200)
    /\ modifiers.ctrl
    /\ compositing /\ has_sent_ime_enabled

\* C17: the announced flag is true exactly when the IME notification emitted
\* last is Enabled (false when none was emitted); every IME-preedit emitted
\* comes after an Enabled notification with no Disabled one between them; and
\* every IME-commit emitted is immediately followed by a Disabled notification.
C17_AnnouncedFlagTracksNotifications ==
    /\ has_sent_ime_enabled = (obs.ime = "Enabled")
    /\ obs.preedit_enabled
    /\ obs.commit_followed
    /\ ~obs.after_commit

\* A composition announced, continued and committed.
C17_Witness ==
    /\ last_call.kind = "TextInput"
    /\ prev_call.kind = "TextEditing"
    /\ before.has_sent_ime_enabled /\ before.compositing
    /\ emitted = <<ImeCommit(last_call.text), ImeDisabled>>
    /\ obs.ime = "Disabled"
    /\ ~has_sent_ime_enabled

\* C18: a call other than a frame begin leaves the events already queued in
\* place and in order, what it produces coming after them; a frame begin hands
\* the toolkit exactly the queue as it stands.  So the batch of a frame is the
\* concatenation, in arrival order, of what each handle_event call produced
\* since the previous frame begin.
C18_BatchIsConcatenationInArrivalOrder ==
    [][/\ last_call'.kind \notin FrameBegins
             => raw_input'.events = raw_input.events \o emitted'
       /\ last_call'.kind \in FrameBegins
             => /\ begun' # None
                /\ begun'.val.events = raw_input.events
                /\ raw_input'.events = <<>>]_vars

\* A frame begun after a pointer motion and then a ctrl+C press: the batch is
\* the motion, the copy and the key press, in that order.
C18_Witness ==
    /\ last_call.kind = "context"
    /\ prev_call.kind = "KeyDown"
    /\ begun # None
    /\ Len(begun.val.events) = 3
    /\ begun.val.events[1] = PointerMoved(Pos2(100, 200))
    /\ begun.val.events[2] = Copy
    /\ begun.val.events[3].type = "Key"

====
